---- MODULE Spec2Model ----
(***************************************************************************)
(* Matrix Orbital LCD plugin for Quod Libet (src/matrix_orbital.py).       *)
(*                                                                         *)
(* The model follows the plugin object MatrixOrbitalLCD and its nested     *)
(* _NowPlayingLCDData object.  Texts are sequences of code points, the     *)
(* device is the sequence of byte strings the last handler wrote to it.    *)
(* The initial state is the state right after enabled() has opened the     *)
(* device; from then on _failed_initialization() is always false.          *)
(***************************************************************************)
EXTENDS Integers, Sequences, FiniteSets, TLC

(***************************************************************************)
(* Configuration.  CONFIG.lcd_width and CONFIG.lcd_interval are user       *)
(* settings (defaults 20 and 150); the model runs a narrower and slower    *)
(* display so that whole scroll phases are explored.  The width is the    *)
(* smallest one in which every banner of the plugin still fits.            *)
(***************************************************************************)
lcd_width == 15

lcd_interval == 800

\* Longest suppression a direct prevent_update call asks for, in seconds.
MaxSeconds == 2

\* Number of host events (other than ticks, pause and unpause) in LiveSpec.
MaxCalls == 2

(***************************************************************************)
(* Python helpers.                                                         *)
(***************************************************************************)
Min(a, b) == IF a < b THEN a ELSE b

Max(a, b) == IF a > b THEN a ELSE b

\* Python's slice index normalisation for a sequence of length n.
SliceIndex(i, n) == IF i < 0 THEN Max(n + i, 0) ELSE Min(i, n)

\* Python's text[a:b] (0-based, end exclusive, out-of-range indexes clamped).
Slice(text, a, b) ==
    LET lo == SliceIndex(a, Len(text))
        hi == SliceIndex(b, Len(text))
    IN  IF hi <= lo THEN << >> ELSE SubSeq(text, lo + 1, hi)

\* Python's text[a:].
SliceFrom(text, a) == Slice(text, a, Len(text))

Blanks(n) == [i \in 1..Max(n, 0) |-> 32]

\* str.ljust(n) and str.rjust(n).
LJust(text, n) == text \o Blanks(n - Len(text))

RJust(text, n) == Blanks(n - Len(text)) \o text

\* Python 3 round() of the fraction n/d (d > 0, n >= 0): ties go to even.
RoundHalfEven(n, d) ==
    LET q == n \div d
        r == n % d
    IN  IF 2 * r < d THEN q
        ELSE IF 2 * r > d THEN q + 1
        ELSE IF q % 2 = 0 THEN q ELSE q + 1

\* bytes(chr(index), "utf8"); chr raises ValueError outside 0..0x10FFFF.
ChrOk(index) == index >= 0 /\ index <= 1114111

Utf8(cp) ==
    IF cp < 128 THEN << cp >>
    ELSE IF cp < 2048 THEN << 192 + (cp \div 64), 128 + (cp % 64) >>
    ELSE IF cp < 65536
         THEN << 224 + (cp \div 4096), 128 + ((cp \div 64) % 64), 128 + (cp % 64) >>
    ELSE << 240 + (cp \div 262144), 128 + ((cp \div 4096) % 64),
            128 + ((cp \div 64) % 64), 128 + (cp % 64) >>

\* unidecode() on the characters the inputs use: ASCII is kept, e-acute
\* becomes "e" and sharp s becomes "ss".
UnidecodeChar(c) ==
    IF c < 128 THEN << c >>
    ELSE IF c = 233 THEN << 101 >>
    ELSE IF c = 223 THEN << 115, 115 >>
    ELSE << >>

RECURSIVE unidecode(_)
unidecode(text) ==
    IF text = << >> THEN << >>
    ELSE UnidecodeChar(Head(text)) \o unidecode(Tail(text))

(***************************************************************************)
(* String literals of the source, as code points.                          *)
(***************************************************************************)
StrQuodLibet == << 81, 117, 111, 100, 32, 76, 105, 98, 101, 116 >>

StrSeeking == << 83, 101, 101, 107, 105, 110, 103, 46, 46, 46 >>

StrStopped == << 42, 32, 115, 116, 111, 112, 112, 101, 100, 32, 42 >>

StrPaused == << 42, 32, 112, 97, 117, 115, 101, 100, 32, 42 >>

StrNowPlaying ==
    << 42, 32, 110, 111, 119, 32, 112, 108, 97, 121, 105, 110, 103, 32, 42 >>

StrDisc == << 68, 105, 115, 99, 32 >>

StrTrack == << 84, 114, 97, 99, 107, 32 >>

StrEllipsis == << 46, 46, 46 >>

\* Python's None for a text; no text holds a negative code point.
None == << -1 >>

\* The scroll argument None of _write_text.
NoScroll == -2

(***************************************************************************)
(* _Alignment and _Phase.                                                  *)
(***************************************************************************)
LEFT == "LEFT"

RIGHT == "RIGHT"

CENTER == "CENTER"

TOP == "TOP"

BOTTOM == "BOTTOM"

BASIC_INFO == "BASIC_INFO"

BASIC_SCROLL == "BASIC_SCROLL"

BASIC_INFO_2 == "BASIC_INFO_2"

BASIC_SCROLL_2 == "BASIC_SCROLL_2"

DISC_INFO == "DISC_INFO"

HEADER_INFO == "HEADER_INFO"

Phases ==
    { BASIC_INFO, BASIC_SCROLL, BASIC_INFO_2, BASIC_SCROLL_2, DISC_INFO, HEADER_INFO }

ScrollPhases == { BASIC_SCROLL, BASIC_SCROLL_2 }

(***************************************************************************)
(* Protocol encoder.  A write that raises is the marker Raise.             *)
(***************************************************************************)
Raise == << -1 >>

\* The byte string _reset_lcd writes: clear screen, cursor home.
ClearHome == << 254, 88, 254, 72 >>

\* Floor of (a / 2) for any integer a.
FloorHalf(a) == IF a >= 0 THEN a \div 2 ELSE -((1 - a) \div 2)

\* The column _align_text computes on a display of the given width.
AlignIndexAt(width, text, h_align) ==
    IF h_align = LEFT THEN 1
    ELSE IF h_align = RIGHT THEN Max(width - Len(text) + 1, 1)
    ELSE FloorHalf(width - Len(text)) + 1

AlignIndex(text, h_align) == AlignIndexAt(lcd_width, text, h_align)

\* The bytes _align_text builds once the column is known.
AlignBytes(index, text, v_align) ==
    IF ~ChrOk(index) THEN Raise
    ELSE << 254, 71 >> \o Utf8(index)
         \o (IF v_align = TOP THEN << 1 >>
             ELSE IF v_align = BOTTOM THEN << 2 >> ELSE << >>)
         \o text

align_text(text, h_align, v_align) ==
    AlignBytes(AlignIndex(text, h_align), text, v_align)

\* The writes that reach the device: those before the first one that raises.
RECURSIVE Emit(_)
Emit(items) ==
    IF items = << >> \/ Head(items) = Raise THEN << >>
    ELSE << Head(items) >> \o Emit(Tail(items))

Raised(items) == \E i \in 1..Len(items) : items[i] = Raise

\* _write_header(header): the header centred on the top row.
write_header(header) == << align_text(header, CENTER, TOP) >>

\* _write_header_with_text(text).
write_header_with_text(text) ==
    << ClearHome >> \o write_header(StrQuodLibet)
    \o << align_text(text, CENTER, BOTTOM) >>

(***************************************************************************)
(* _NowPlayingLCDData.  The object is a record; each method is an          *)
(* operator from the object (and the arguments) to the object afterwards.  *)
(***************************************************************************)
\* _seconds_to_ticks(seconds) = int(round(seconds * (1000 / interval))).
seconds_to_ticks(seconds) == RoundHalfEven(seconds * 1000, lcd_interval)

ticks_in_phase == seconds_to_ticks(4)

\* If the text should scroll, pad it to scroll width.
PadToScroll(text) ==
    IF Len(text) > lcd_width THEN text \o Blanks(lcd_width) ELSE text

set_basic_info(s, artist, title) ==
    [s EXCEPT !.artist = PadToScroll(unidecode(artist)),
              !.title = PadToScroll(unidecode(title))]

\* Row 1 of the disc info: the album, cut to the width with an ellipsis.
DiscInfoRow1At_NoEllipsis(width, album) ==
    IF album = None THEN << >>
    ELSE LET tlalbum == unidecode(album)
         IN  IF Len(tlalbum) > width THEN Slice(tlalbum, 0, width) ELSE tlalbum

DiscInfoRow1At(width, album) ==
    IF album = None THEN << >>
    ELSE LET tlalbum == unidecode(album)
         IN  IF Len(tlalbum) > width
             THEN Slice(tlalbum, 0, width - 3) \o StrEllipsis
             ELSE tlalbum

DiscInfoRow1(album) == DiscInfoRow1At(lcd_width, album)

\* Row 2 of the disc info: "Disc d" to the left, "Track t" to the right.
DiscInfoRow2(discnumber, tracknumber) ==
    LET row == IF discnumber = None THEN << >>
               ELSE LJust(StrDisc \o unidecode(discnumber) \o << 32 >>, 9)
    IN  IF tracknumber = None THEN row
        ELSE row \o RJust(StrTrack \o unidecode(tracknumber), lcd_width - Len(row))

set_disc_info(s, album, discnumber, tracknumber) ==
    [s EXCEPT !.disc_info_row_1 = DiscInfoRow1(album),
              !.disc_info_row_2 = DiscInfoRow2(discnumber, tracknumber)]

\* Mutant: reset leaves the suppression window as it is.
reset_KeepsSkip(s) ==
    [s EXCEPT !.artist = None,
              !.title = None,
              !.disc_info_row_1 = << >>,
              !.disc_info_row_2 = << >>,
              !.scroll_a = 0,
              !.scroll_t = 0,
              !.tick_count = 0,
              !.phase = BASIC_INFO,
              !.force_refresh = TRUE]

\* Mutant: reset leaves the scroll cursors as they are.
reset_KeepsScroll(s) ==
    [s EXCEPT !.artist = None,
              !.title = None,
              !.disc_info_row_1 = << >>,
              !.disc_info_row_2 = << >>,
              !.skip_ticks = 0,
              !.tick_count = 0,
              !.phase = BASIC_INFO,
              !.force_refresh = TRUE]

\* Mutant: reset leaves the artist and the title loaded.
reset_KeepsTexts(s) ==
    [s EXCEPT !.disc_info_row_1 = << >>,
              !.disc_info_row_2 = << >>,
              !.skip_ticks = 0,
              !.scroll_a = 0,
              !.scroll_t = 0,
              !.tick_count = 0,
              !.phase = BASIC_INFO,
              !.force_refresh = TRUE]

reset(s) ==
    [s EXCEPT !.artist = None,
              !.title = None,
              !.disc_info_row_1 = << >>,
              !.disc_info_row_2 = << >>,
              !.skip_ticks = 0,
              !.scroll_a = 0,
              !.scroll_t = 0,
              !.tick_count = 0,
              !.phase = BASIC_INFO,
              !.force_refresh = TRUE]

prevent_update(s, seconds) ==
    IF seconds < 0 THEN [s EXCEPT !.skip_ticks = -1]
    ELSE [s EXCEPT !.skip_ticks = seconds_to_ticks(seconds)]

\* Mutant: the forced update is forgotten.
set_forced_update_Noop(s) == s

set_forced_update(s) == [s EXCEPT !.force_refresh = TRUE]

\* Mutant: the table sends BASIC_SCROLL straight to BASIC_SCROLL_2.
NextPhase_Skips(phase) ==
    CASE phase = BASIC_INFO -> BASIC_SCROLL
      [] phase = BASIC_SCROLL -> BASIC_SCROLL_2
      [] phase = BASIC_INFO_2 -> BASIC_SCROLL_2
      [] phase = BASIC_SCROLL_2 -> DISC_INFO
      [] phase = DISC_INFO -> HEADER_INFO
      [] phase = HEADER_INFO -> BASIC_INFO
      [] OTHER -> HEADER_INFO

\* The next_phases table of _advance_phase.
NextPhase(phase) ==
    CASE phase = BASIC_INFO -> BASIC_SCROLL
      [] phase = BASIC_SCROLL -> BASIC_INFO_2
      [] phase = BASIC_INFO_2 -> BASIC_SCROLL_2
      [] phase = BASIC_SCROLL_2 -> DISC_INFO
      [] phase = DISC_INFO -> HEADER_INFO
      [] phase = HEADER_INFO -> BASIC_INFO
      [] OTHER -> HEADER_INFO

\* Mutant: a text exactly as wide as the display scrolls.
StartCursor_Strict(text) == IF Len(text) < lcd_width THEN -1 ELSE 0

\* Mutant: every phase starts with both cursors at 0.
StartCursor_Always(text) == 0

\* Don't scroll if there is no need to: the cursor a phase starts with.
StartCursor(text) == IF Len(text) <= lcd_width THEN -1 ELSE 0

\* Mutant: the phase itself is not moved on.
advance_phase_Stays(s) ==
    [s EXCEPT !.scroll_a = StartCursor(s.artist),
              !.scroll_t = StartCursor(s.title),
              !.tick_count = 0,
              !.force_refresh = TRUE]

\* Mutant: the tick counter runs on into the next phase.
advance_phase_KeepsCount(s) ==
    [s EXCEPT !.scroll_a = StartCursor(s.artist),
              !.scroll_t = StartCursor(s.title),
              !.phase = NextPhase(s.phase),
              !.force_refresh = TRUE]

\* Mutant: the new phase is not asked to redraw.
advance_phase_NoForce(s) ==
    [s EXCEPT !.scroll_a = StartCursor(s.artist),
              !.scroll_t = StartCursor(s.title),
              !.tick_count = 0,
              !.phase = NextPhase(s.phase)]

advance_phase(s) ==
    [s EXCEPT !.scroll_a = StartCursor(s.artist),
              !.scroll_t = StartCursor(s.title),
              !.tick_count = 0,
              !.phase = NextPhase(s.phase),
              !.force_refresh = TRUE]

\* Mutant: the rotation forgets to wrap around to the start of the text.
ScrolledText_NoWrap(text, scroll) ==
    LET rotated == IF scroll # NoScroll /\ scroll > 0
                   THEN SliceFrom(text, scroll)
                   ELSE text
    IN  Slice(rotated, 0, lcd_width)

\* The text _write_text sends: rotated by the cursor, cut to the width.
ScrolledText(text, scroll) ==
    LET rotated == IF scroll # NoScroll /\ scroll > 0
                   THEN SliceFrom(text, scroll) \o text
                   ELSE text
    IN  Slice(rotated, 0, lcd_width)

write_text(text, scroll, v_align) ==
    align_text(ScrolledText(text, scroll), LEFT, v_align)

\* _refresh(artist, title, disc_info): the writes it makes, in order.
refresh(s, artist, title, disc_info) ==
    IF disc_info
    THEN << write_text(s.disc_info_row_1, NoScroll, TOP),
            write_text(s.disc_info_row_2, NoScroll, BOTTOM) >>
    ELSE (IF artist THEN << write_text(s.artist, s.scroll_a, TOP) >> ELSE << >>)
         \o (IF title THEN << write_text(s.title, s.scroll_t, BOTTOM) >> ELSE << >>)

(***************************************************************************)
(* on_tracker_tick.  The result is the object afterwards and the writes    *)
(* the tick asked for (a write that raises ends the tick).                 *)
(***************************************************************************)
\* Mutant: the test for indefinite suppression is missing.
TickIgnored_NoForever(s) == s.artist = None \/ s.title = None

\* The first test of on_tracker_tick: nothing loaded, or suppressed for good.
TickIgnored(s) == s.artist = None \/ s.title = None \/ s.skip_ticks < 0

\* Mutant: the end of the window does not force a refresh.
TickSkipped_NoRefresh(s) == [s EXCEPT !.skip_ticks = s.skip_ticks - 1]

\* Mutant: every tick of the window forces a refresh.
TickSkipped_Early(s) ==
    [s EXCEPT !.skip_ticks = s.skip_ticks - 1, !.force_refresh = TRUE]

\* A tick inside a suppression window.
TickSkipped(s) ==
    LET n == s.skip_ticks - 1
    IN  [s EXCEPT !.skip_ticks = n,
                  !.force_refresh = IF n = 0 THEN TRUE ELSE @]

\* Mutant: a cursor past the end starts over instead of finishing.
ScrollStep_Wraps(scroll, length) ==
    IF scroll > -1
    THEN (IF scroll + 1 > length THEN 0 ELSE scroll + 1)
    ELSE scroll

\* Mutant: the cursor runs one step past the end of the text.
ScrollStep_Overruns(scroll, length) ==
    IF scroll > -1
    THEN (IF scroll + 1 > length + 1 THEN -1 ELSE scroll + 1)
    ELSE scroll

\* One scroll step of a cursor over a text of the given length.
ScrollStep(scroll, length) ==
    IF scroll > -1
    THEN (IF scroll + 1 > length THEN -1 ELSE scroll + 1)
    ELSE scroll

\* The static phases: redraw if forced, then advance once the hold is over.
TickStatic(t, items, expired) ==
    LET d == [t EXCEPT !.force_refresh = FALSE]
    IN  IF ~t.force_refresh
        THEN [st |-> IF expired THEN advance_phase(t) ELSE t, w |-> << >>]
        ELSE IF Raised(items)
        THEN [st |-> d, w |-> items]
        ELSE [st |-> IF expired THEN advance_phase(d) ELSE d, w |-> items]

\* Mutant: the hold ends a tick early.
PhaseExpired_AtLeast(t) == t.tick_count >= ticks_in_phase

\* The hold of the phase is over.
PhaseExpired(t) == t.tick_count > ticks_in_phase

\* The header phase holds half as long (tick_count > ticks_in_phase / 2).
HeaderExpired(t) == 2 * t.tick_count > ticks_in_phase

\* Mutant: the scroll phase does not wait for the title.
TickScroll_IgnoresTitle(t) ==
    LET refresh_artist == t.scroll_a > -1 \/ t.force_refresh
        refresh_title == t.scroll_t > -1 \/ t.force_refresh
        u == [t EXCEPT !.force_refresh = FALSE,
                       !.scroll_a = ScrollStep(@, Len(t.artist)),
                       !.scroll_t = ScrollStep(@, Len(t.title))]
    IN  IF PhaseExpired(t) /\ t.scroll_a = -1
        THEN [st |-> advance_phase(t), w |-> << >>]
        ELSE [st |-> u,
              w |-> (IF t.force_refresh THEN << ClearHome >> ELSE << >>)
                    \o (IF refresh_artist THEN refresh(u, TRUE, FALSE, FALSE) ELSE << >>)
                    \o (IF refresh_title THEN refresh(u, FALSE, TRUE, FALSE) ELSE << >>)]

\* BASIC_SCROLL and BASIC_SCROLL_2.
TickScroll(t) ==
    LET refresh_artist == t.scroll_a > -1 \/ t.force_refresh
        refresh_title == t.scroll_t > -1 \/ t.force_refresh
        u == [t EXCEPT !.force_refresh = FALSE,
                       !.scroll_a = ScrollStep(@, Len(t.artist)),
                       !.scroll_t = ScrollStep(@, Len(t.title))]
    IN  IF PhaseExpired(t) /\ t.scroll_a = -1 /\ t.scroll_t = -1
        THEN [st |-> advance_phase(t), w |-> << >>]
        ELSE [st |-> u,
              w |-> (IF t.force_refresh THEN << ClearHome >> ELSE << >>)
                    \o (IF refresh_artist THEN refresh(u, TRUE, FALSE, FALSE) ELSE << >>)
                    \o (IF refresh_title THEN refresh(u, FALSE, TRUE, FALSE) ELSE << >>)]

on_tracker_tick(s) ==
    IF TickIgnored(s) THEN [st |-> s, w |-> << >>]
    ELSE IF s.skip_ticks > 0 THEN [st |-> TickSkipped(s), w |-> << >>]
    ELSE LET t == [s EXCEPT !.tick_count = @ + 1]
         IN  CASE t.phase \in { BASIC_INFO, BASIC_INFO_2 } ->
                    TickStatic(t, << ClearHome >> \o refresh(t, TRUE, TRUE, FALSE),
                               PhaseExpired(t))
               [] t.phase \in ScrollPhases -> TickScroll(t)
               [] t.phase = DISC_INFO ->
                    TickStatic(t, << ClearHome >> \o refresh(t, FALSE, FALSE, TRUE),
                               PhaseExpired(t))
               [] t.phase = HEADER_INFO ->
                    TickStatic(t, << ClearHome >> \o write_header_with_text(StrNowPlaying),
                               HeaderExpired(t))
               [] OTHER -> [st |-> t, w |-> << >>]

(***************************************************************************)
(* Inputs.                                                                 *)
(***************************************************************************)
\* The text "abc..." of n characters.
Txt(n) == [i \in 1..n |-> 97 + ((i - 1) % 26)]

\* Artists: one exactly as wide as the display, one a character wider, and
\* one that only becomes wider than the display when transliterated.
Artists == { Txt(lcd_width), Txt(lcd_width + 1), << 223 >> \o Txt(lcd_width - 1) }

Titles == { Txt(2), Txt(lcd_width + 2) }

\* The tags that come with a title: a long album with disc and track
\* numbers, or a short album alone.
Tags(title) ==
    IF Len(title) > lcd_width
    THEN [album |-> Txt(lcd_width + 3), discnumber |-> << 49 >>, tracknumber |-> << 51 >>]
    ELSE [album |-> << 233 >>, discnumber |-> None, tracknumber |-> None]

Songs ==
    { [artist |-> a, title |-> t, album |-> Tags(t).album,
       discnumber |-> Tags(t).discnumber, tracknumber |-> Tags(t).tracknumber] :
      a \in Artists, t \in Titles }

\* (msec, length of the song in seconds) of a seek.
SeekInputs == { << 1000, 2 >>, << 0, 0 >> }

\* The seconds a direct prevent_update call passes.
SuppressSeconds == (-1)..MaxSeconds

(***************************************************************************)
(* State.                                                                  *)
(***************************************************************************)
VARIABLES
    npld,       \* the _NowPlayingLCDData object
    out,        \* the byte strings the last handler wrote to the device
    raised,     \* the last handler ended by raising
    lastOp,     \* the last handler that ran
    lastEvent,  \* the last handler that ran, ticks aside
    sup,        \* cursors and window of a suppress call made mid-scroll
    calls,      \* resets and suppress calls counted by LiveSpec
    clock,      \* flips whenever the tracker fires in LiveSpec
    call        \* the call FnSpec applies, with its arguments and result

vars == << npld, out, raised, lastOp, lastEvent, sup, calls, clock, call >>

\* No call: Spec and LiveSpec run the plugin, not a single function.
NoCall ==
    [fn |-> "none", width |-> 0, text |-> << >>, h_align |-> "-",
     v_align |-> "-", msec |-> 0, length |-> 0, done |-> FALSE,
     result |-> << >>]

NoSup == [a |-> -2, t |-> -2, n |-> -2]

\* The object before __init__ has assigned anything.
Blank ==
    [artist |-> None, title |-> None, disc_info_row_1 |-> << >>,
     disc_info_row_2 |-> << >>, skip_ticks |-> 0, scroll_a |-> 0, scroll_t |-> 0,
     tick_count |-> 0, phase |-> BASIC_INFO, force_refresh |-> FALSE]

Loaded == npld.artist # None /\ npld.title # None

\* enabled(): the device is opened and prepared, the object constructed.
Init ==
    /\ npld = reset(Blank)
    /\ out = Emit(<< ClearHome, << 254, 104 >>, << 254, 66, 0 >> >>
                  \o write_header(StrQuodLibet))
    /\ raised = FALSE
    /\ lastOp = "enabled"
    /\ lastEvent = "enabled"
    /\ sup = NoSup
    /\ calls = 0
    /\ clock = 0
    /\ call = NoCall

(***************************************************************************)
(* Handlers.  Each Do... is one whole handler; the counters of     *)
(* LiveSpec are left to the actions below.                                 *)
(***************************************************************************)
\* The suppress call is made mid-scroll, with a cursor active.
MidScroll(s) ==
    /\ s.artist # None /\ s.title # None
    /\ s.phase \in ScrollPhases
    /\ (s.scroll_a > -1 \/ s.scroll_t > -1)

\* What a prevent_update(seconds) call leaves in sup.
SupAfter(s, seconds) ==
    IF seconds >= 0 /\ MidScroll(s)
    THEN [a |-> s.scroll_a, t |-> s.scroll_t, n |-> prevent_update(s, seconds).skip_ticks]
    ELSE NoSup

\* The tracker's tick: on_tracker_tick.
DoTick ==
    LET r == on_tracker_tick(npld)
    IN  /\ npld' = r.st
        /\ out' = Emit(r.w)
        /\ raised' = Raised(r.w)
        /\ lastOp' = "tick"
        /\ sup' = IF ~TickIgnored(npld) /\ npld.skip_ticks > 0 THEN sup ELSE NoSup
        /\ UNCHANGED lastEvent

\* plugin_on_song_started(song) with a song.
DoSongStarted ==
    \E song \in Songs :
        /\ npld' = set_disc_info(
                       set_basic_info(reset(npld), song.artist, song.title),
                       song.album, song.discnumber, song.tracknumber)
        /\ out' = << ClearHome >>
        /\ raised' = FALSE
        /\ lastOp' = "song_started"
        /\ lastEvent' = "song_started"
        /\ sup' = NoSup

\* plugin_on_song_started(None): returns at once.
DoSongStartedNone ==
    /\ out' = << >>
    /\ raised' = FALSE
    /\ lastOp' = "song_started_none"
    /\ lastEvent' = "song_started_none"
    /\ UNCHANGED << npld, sup >>

\* plugin_on_song_ended.
DoSongEnded ==
    LET items == write_header_with_text(StrStopped)
    IN  /\ npld' = reset(npld)
        /\ out' = Emit(items)
        /\ raised' = Raised(items)
        /\ lastOp' = "song_ended"
        /\ lastEvent' = "song_ended"
        /\ sup' = NoSup

\* The percentage of plugin_on_seek: int(round(msec / float(length) / 10)).
PercentPlayed(msec, length) == RoundHalfEven(msec, length * 10)

\* The writes of plugin_on_seek; a song of length 0 raises ZeroDivisionError.
SeekItems(msec, length) ==
    << ClearHome >> \o write_header(StrSeeking)
    \o (IF length = 0 \/ ~ChrOk(PercentPlayed(msec, length))
        THEN << Raise >>
        ELSE << << 254, 124, 1, 2, 0 >> \o Utf8(PercentPlayed(msec, length)) >>)

\* plugin_on_seek(song, msec) for a song of the given length.
plugin_on_seek(msec, length) ==
    LET items == SeekItems(msec, length)
    IN  /\ npld' = prevent_update(npld, 1)
        /\ out' = Emit(items)
        /\ raised' = Raised(items)
        /\ lastOp' = "seek"
        /\ lastEvent' = "seek"
        /\ sup' = SupAfter(npld, 1)

DoSeek == \E in \in SeekInputs : plugin_on_seek(in[1], in[2])

\* plugin_on_paused.
DoPaused ==
    LET items == write_header_with_text(StrPaused)
    IN  /\ out' = Emit(items)
        /\ raised' = Raised(items)
        /\ lastOp' = "paused"
        /\ lastEvent' = "paused"
        /\ UNCHANGED << npld, sup >>

\* plugin_on_unpaused.
DoUnpaused ==
    /\ npld' = set_forced_update(npld)
    /\ out' = << >>
    /\ raised' = FALSE
    /\ lastOp' = "unpaused"
    /\ lastEvent' = "unpaused"
    /\ UNCHANGED sup

\* A direct call of the public method prevent_update(seconds).
DoPreventUpdate ==
    \E seconds \in SuppressSeconds :
        /\ npld' = prevent_update(npld, seconds)
        /\ out' = << >>
        /\ raised' = FALSE
        /\ lastOp' = IF seconds < 0 THEN "prevent_update_forever" ELSE "prevent_update"
        /\ lastEvent' = lastOp'
        /\ sup' = SupAfter(npld, seconds)

Tick == DoTick /\ UNCHANGED << calls, clock, call >>

SongStarted == DoSongStarted /\ UNCHANGED << calls, clock, call >>

SongStartedNone == DoSongStartedNone /\ UNCHANGED << calls, clock, call >>

SongEnded == DoSongEnded /\ UNCHANGED << calls, clock, call >>

Seek == DoSeek /\ UNCHANGED << calls, clock, call >>

Paused == DoPaused /\ UNCHANGED << calls, clock, call >>

Unpaused == DoUnpaused /\ UNCHANGED << calls, clock, call >>

PreventUpdate == DoPreventUpdate /\ UNCHANGED << calls, clock, call >>

Next ==
    \/ Tick
    \/ SongStarted
    \/ SongStartedNone
    \/ SongEnded
    \/ Seek
    \/ Paused
    \/ Unpaused
    \/ PreventUpdate

Spec == Init /\ [][Next]_vars

(***************************************************************************)
(* What the claims speak of.                                               *)
(***************************************************************************)
\* The fixed cycle of the phases.
Cycle ==
    << BASIC_INFO, BASIC_SCROLL, BASIC_INFO_2, BASIC_SCROLL_2, DISC_INFO, HEADER_INFO >>

CycleSucc(phase) ==
    LET i == CHOOSE j \in 1..Len(Cycle) : Cycle[j] = phase
    IN  Cycle[(i % Len(Cycle)) + 1]

\* rotate_left(text, k) cut to the display width.
RotateLeftCut(text, k) ==
    LET n == Len(text)
        r == [i \in 1..n |-> text[((i - 1 + k) % n) + 1]]
    IN  [i \in 1..Min(n, lcd_width) |-> r[i]]

\* The first display_width characters of a text.
Cut(text) == [i \in 1..Min(Len(text), lcd_width) |-> text[i]]

\* The texts written at column 1 of a row (1 = top, 2 = bottom).
RowTexts(o, row) ==
    { SubSeq(o[i], 5, Len(o[i])) :
        i \in { j \in 1..Len(o) :
                  Len(o[j]) >= 4 /\ SubSeq(o[j], 1, 4) = << 254, 71, 1, row >> } }

\* The stored text without the blanks set_basic_info appended.
Scrolls(text) == Len(text) > lcd_width

TextLength(text) == IF Scrolls(text) THEN Len(text) - lcd_width ELSE Len(text)

IsReset(op) == op \in { "song_started", "song_ended" }

\* C1: every change of phase by a tick is one step of the fixed cycle, and
\* the only other change of phase is a reset, which goes to BASIC_INFO.
C1_PhaseCycle ==
    [][npld'.phase # npld.phase =>
          \/ lastOp' = "tick" /\ npld'.phase = CycleSucc(npld.phase)
          \/ IsReset(lastOp') /\ npld'.phase = BASIC_INFO]_vars

\* Ticks alone have taken the phase once around the cycle.
C1_Witness ==
    /\ lastOp = "tick" /\ lastEvent = "song_started"
    /\ npld.phase = BASIC_INFO /\ npld.tick_count = 0

\* An unsuppressed tick of a scroll phase that does not leave the phase.
ScrollTick ==
    /\ lastOp' = "tick"
    /\ Loaded /\ npld.skip_ticks = 0
    /\ npld.phase \in ScrollPhases
    /\ npld'.phase = npld.phase

\* The claim's sequence for one field: draw number j shows rotation j - 1,
\* up to rotation N, and nothing else is shown afterwards.
ClaimedDraws(text, cursor, j, texts) ==
    Scrolls(text) =>
        IF j <= TextLength(text) + 1
        THEN texts = { RotateLeftCut(text, j - 1) }
        ELSE texts \subseteq { RotateLeftCut(text, TextLength(text)) }

\* C2 as claimed: the draws of a scrolling field are the rotations
\* k = 0, 1, ..., N in that order, and then the field is frozen.
C2_Original ==
    [][ScrollTick =>
          /\ ClaimedDraws(npld.artist, npld.scroll_a, npld'.tick_count, RowTexts(out', 1))
          /\ ClaimedDraws(npld.title, npld.scroll_t, npld'.tick_count, RowTexts(out', 2))]_vars

\* What the code draws: draw number j shows rotation j of the padded text for
\* j = 1 .. N + display_width, draw N + display_width + 1 shows the text
\* unrotated, and from then on the field is only redrawn, unrotated, by a
\* forced refresh.
ActualDraws(text, cursor, cursorAfter, j, forced, texts) ==
    Scrolls(text) =>
        IF j <= Len(text)
        THEN cursor = j - 1 /\ cursorAfter = j /\ texts = { RotateLeftCut(text, j) }
        ELSE IF j = Len(text) + 1
        THEN cursor = j - 1 /\ cursorAfter = -1 /\ texts = { Cut(text) }
        ELSE /\ cursor = -1 /\ cursorAfter = -1
             /\ texts = IF forced THEN { Cut(text) } ELSE { }

\* C2 (amended): on the successive unsuppressed ticks of a scroll phase a
\* field longer than the display is drawn as the rotations k = 1, 2, ...,
\* N + display_width of its padded text, then once unrotated, then frozen.
C2_Amended ==
    [][ScrollTick =>
          /\ ActualDraws(npld.artist, npld.scroll_a, npld'.scroll_a, npld'.tick_count,
                         npld.force_refresh, RowTexts(out', 1))
          /\ ActualDraws(npld.title, npld.scroll_t, npld'.scroll_t, npld'.tick_count,
                         npld.force_refresh, RowTexts(out', 2))]_vars

\* A scrolling artist has just been drawn for the last time, unrotated.
C2_Witness ==
    /\ lastOp = "tick" /\ npld.phase \in ScrollPhases
    /\ Scrolls(npld.artist)
    /\ npld.tick_count = Len(npld.artist) + 1 /\ npld.scroll_a = -1
    /\ RowTexts(out, 1) = { Cut(npld.artist) }

\* C3: a field no longer than the display has its cursor at -1 in every
\* tick of a scroll phase, keeps it there, and is only drawn unrotated.
ShortFieldStill(text, cursor, cursorAfter, texts) ==
    (text # None /\ ~Scrolls(text)) =>
        cursor = -1 /\ cursorAfter = -1 /\ texts \subseteq { text }

C3_ShortNeverScrolls ==
    [][(lastOp' = "tick" /\ npld.phase \in ScrollPhases) =>
          /\ ShortFieldStill(npld.artist, npld.scroll_a, npld'.scroll_a, RowTexts(out', 1))
          /\ ShortFieldStill(npld.title, npld.scroll_t, npld'.scroll_t, RowTexts(out', 2))]_vars

\* A scroll phase has redrawn an artist exactly as wide as the display.
C3_Witness ==
    /\ lastOp = "tick" /\ npld.phase \in ScrollPhases
    /\ Len(npld.artist) = lcd_width /\ npld.scroll_a = -1
    /\ RowTexts(out, 1) = { npld.artist }

\* A write of a text at column 1 of a row.
RowWrite(row, text) == << 254, 71, 1, row >> \o text

\* A field as a scroll phase draws it once its cursor has moved on from c.
DrawnAfter(text, c) ==
    IF c > -1 /\ c + 1 <= Len(text) THEN RotateLeftCut(text, c + 1) ELSE Cut(text)

\* The full redraw of a phase: clear and home, then the rows of the phase.
FullRedraw(s) ==
    CASE s.phase \in { BASIC_INFO, BASIC_INFO_2 } ->
            << ClearHome, RowWrite(1, Cut(s.artist)), RowWrite(2, Cut(s.title)) >>
      [] s.phase \in ScrollPhases ->
            << ClearHome, RowWrite(1, DrawnAfter(s.artist, s.scroll_a)),
               RowWrite(2, DrawnAfter(s.title, s.scroll_t)) >>
      [] s.phase = DISC_INFO ->
            << ClearHome, RowWrite(1, Cut(s.disc_info_row_1)),
               RowWrite(2, Cut(s.disc_info_row_2)) >>
      [] s.phase = HEADER_INFO ->
            << ClearHome, ClearHome,
               << 254, 71, FloorHalf(lcd_width - Len(StrQuodLibet)) + 1, 1 >>
                   \o StrQuodLibet,
               << 254, 71, FloorHalf(lcd_width - Len(StrNowPlaying)) + 1, 2 >>
                   \o StrNowPlaying >>

\* The tick that ends a scroll phase: it advances the phase and draws nothing.
EndsScrollPhase(s) ==
    /\ s.phase \in ScrollPhases
    /\ s.tick_count + 1 > ticks_in_phase
    /\ s.scroll_a = -1 /\ s.scroll_t = -1

\* C4 as claimed: the tick right after force_update redraws in full, in
\* every state (here: in every state with a track loaded).
C4_Original ==
    [][(lastOp = "unpaused" /\ Loaded /\ lastOp' = "tick")
          => out' = FullRedraw(npld)]_vars

\* C4 (amended): force_update sets force_refresh, and the tick right after
\* it redraws in full when metadata is loaded, no suppression is active and
\* the tick does not end a scroll phase; otherwise that tick draws nothing
\* and force_refresh stays set.
C4_Amended ==
    [][/\ lastOp' = "unpaused" => npld'.force_refresh
       /\ (lastOp = "unpaused" /\ lastOp' = "tick") =>
            IF Loaded /\ npld.skip_ticks = 0 /\ ~EndsScrollPhase(npld)
            THEN out' = FullRedraw(npld) /\ ~raised'
            ELSE out' = << >> /\ npld'.force_refresh]_vars

\* A forced update in the middle of a phase has been followed by a redraw.
C4_Witness ==
    /\ lastOp = "tick" /\ lastEvent = "unpaused"
    /\ npld.tick_count > 1
    /\ Len(out) >= 3 /\ out[1] = ClearHome

\* C5: while skip_ticks is -1 a tick writes nothing and changes no field,
\* and only a reset or another suppress call takes skip_ticks off -1.
C5_ForeverFrozen ==
    [][npld.skip_ticks = -1 =>
          /\ lastOp' = "tick" => (out' = << >> /\ npld' = npld)
          /\ npld'.skip_ticks # -1 =>
                (IsReset(lastOp') \/ lastOp' \in { "seek", "prevent_update" })]_vars

\* A tick has been ignored with a track loaded and suppression indefinite.
C5_Witness ==
    /\ lastOp = "tick" /\ lastEvent = "prevent_update_forever"
    /\ Loaded /\ npld.skip_ticks = -1 /\ npld.force_refresh

\* C6 as claimed: reset, suppress(seconds >= 0) and force_update each end
\* indefinite suppression.
C6_Original ==
    [][(npld.skip_ticks = -1
        /\ (IsReset(lastOp') \/ lastOp' \in { "seek", "prevent_update", "unpaused" }))
          => npld'.skip_ticks # -1]_vars

\* C6 (amended): reset and suppress(seconds >= 0) end indefinite
\* suppression (skip_ticks becomes the new window, 0 or more ticks);
\* force_update does not: it leaves skip_ticks at -1.
C6_Amended ==
    [][npld.skip_ticks = -1 =>
          /\ IsReset(lastOp') => npld'.skip_ticks = 0
          /\ lastOp' \in { "seek", "prevent_update" } => npld'.skip_ticks >= 0
          /\ lastOp' = "unpaused" => npld'.skip_ticks = -1]_vars

\* A forced update has been made under indefinite suppression, mid-cycle.
C6_Witness ==
    /\ lastOp = "unpaused" /\ Loaded
    /\ npld.skip_ticks = -1 /\ npld.force_refresh
    /\ npld.phase = DISC_INFO

\* The tick that follows a suppress call made mid-scroll, once its window
\* is over: it clears the display and redraws both rows from the cursors
\* the call found.
ResumesScroll ==
    (sup # NoSup /\ npld.skip_ticks = 0 /\ lastOp' = "tick") =>
        out' = << ClearHome, RowWrite(1, DrawnAfter(npld.artist, sup.a)),
                  RowWrite(2, DrawnAfter(npld.title, sup.t)) >>

\* The cursors are those the suppress call found.
CursorsKept == sup # NoSup => (npld.scroll_a = sup.a /\ npld.scroll_t = sup.t)

\* C7 as claimed: for every suppress(s) with s >= 0 made mid-scroll.
C7_Original == [][CursorsKept' /\ ResumesScroll]_vars

\* C7 (amended): the same for a suppress call that yields skip_ticks > 0;
\* a field whose cursor passes the end of its text is drawn unrotated.
C7_Amended == [][CursorsKept' /\ (sup.n > 0 => ResumesScroll)]_vars

\* A window opened mid-scroll has ended and the scroll has resumed.
C7_Witness ==
    /\ lastOp = "tick" /\ lastEvent \in { "seek", "prevent_update" }
    /\ npld.phase \in ScrollPhases /\ npld.skip_ticks = 0
    /\ npld.scroll_a > 2 /\ ~npld.force_refresh
    /\ Len(out) = 3 /\ out[1] = ClearHome

\* C9: a track start leaves phase BASIC_INFO, tick_count 0, skip_ticks 0 and
\* force_refresh set, and the tick right after it clears the display and
\* draws artist and title from their first character, cut to the width.
C9_TrackStart ==
    [][/\ lastOp' = "song_started" =>
            /\ npld'.phase = BASIC_INFO /\ npld'.tick_count = 0
            /\ npld'.skip_ticks = 0 /\ npld'.force_refresh
       /\ (lastOp = "song_started" /\ lastOp' = "tick") =>
            out' = << ClearHome, RowWrite(1, Cut(npld.artist)),
                      RowWrite(2, Cut(npld.title)) >>]_vars

\* A track with a scrolling artist has started and its first tick has drawn
\* both rows from their first character.
C9_Witness ==
    /\ lastOp = "tick" /\ lastEvent = "song_started"
    /\ npld.tick_count = 1 /\ Scrolls(npld.artist)
    /\ out = << ClearHome, RowWrite(1, Cut(npld.artist)), RowWrite(2, Cut(npld.title)) >>

\* C10: a track end clears the metadata, nothing but a track start loads it
\* again, and while it is cleared a tick writes nothing and changes no field.
C10_StoppedFrozen ==
    [][/\ lastOp' = "song_ended" => (npld'.artist = None /\ npld'.title = None)
       /\ (npld.artist = None /\ lastOp' # "song_started") => npld'.artist = None
       /\ (npld.artist = None /\ lastOp' = "tick") => (out' = << >> /\ npld' = npld)]_vars

\* A tick has been ignored after a track end.
C10_Witness ==
    /\ lastOp = "tick" /\ lastEvent = "song_ended"
    /\ npld.artist = None /\ out = << >>

(***************************************************************************)
(* Liveness.  Resets and suppress calls are counted and stop after         *)
(* MaxCalls of them.  The tracker fires for ever: LiveTick has no guard,   *)
(* it is the only action that changes clock and it always changes it, so   *)
(* weak fairness of TrackerFires is weak fairness of the tick.             *)
(***************************************************************************)
LiveTick == DoTick /\ clock' = 1 - clock /\ UNCHANGED << calls, call >>

LiveUnpaused == DoUnpaused /\ UNCHANGED << calls, clock, call >>

LiveSongStarted ==
    calls < MaxCalls /\ DoSongStarted /\ calls' = calls + 1
    /\ UNCHANGED << clock, call >>

LiveSongEnded ==
    calls < MaxCalls /\ DoSongEnded /\ calls' = calls + 1
    /\ UNCHANGED << clock, call >>

LiveSeek ==
    calls < MaxCalls /\ DoSeek /\ calls' = calls + 1
    /\ UNCHANGED << clock, call >>

LivePreventUpdate ==
    calls < MaxCalls /\ DoPreventUpdate /\ calls' = calls + 1
    /\ UNCHANGED << clock, call >>

LiveNext ==
    \/ LiveTick
    \/ LiveUnpaused
    \/ LiveSongStarted
    \/ LiveSongEnded
    \/ LiveSeek
    \/ LivePreventUpdate

TrackerFires == clock' = 1 - clock

LiveSpec == Init /\ [][LiveNext]_vars /\ WF_clock(TrackerFires)

\* C8: if from some point on a track is loaded and skip_ticks is not -1,
\* then every phase recurs infinitely often (so every phase is left again,
\* the scroll phases included).
C8_PhasesRecur ==
    <>[](Loaded /\ npld.skip_ticks # -1)
        => \A p \in Phases : []<>(npld.phase = p)

\* After the last counted call, a seek, a scroll phase of a scrolling artist
\* has come to its end.
C8_Witness ==
    /\ calls = MaxCalls /\ lastEvent = "seek" /\ lastOp = "tick"
    /\ Scrolls(npld.artist) /\ npld.skip_ticks = 0
    /\ npld.phase = BASIC_INFO_2 /\ npld.tick_count = 0

(***************************************************************************)
(* Single calls.  FnSpec starts from the enabled plugin with one call      *)
(* pending, drawn with its arguments from FnCalls, and applies it: the     *)
(* encoder and the album row for a display of any width, a seek for a      *)
(* song of any length.                                                     *)
(***************************************************************************)
EncodeWidths == { 7, 20, 200 }

EncodeTexts == { Txt(2), Txt(10), Txt(24) }

AlbumWidths == { 1, 2, 3, 20 }

Albums == { Txt(1), Txt(3), Txt(4), Txt(21), << 233 >> \o Txt(20) }

\* (msec, length of the song in seconds) of the seeks FnSpec makes.
FnSeekInputs == { << 0, 0 >>, << 1000, 0 >>, << 5000, 50 >>, << 2000, 2 >> }

FnCalls ==
    { [NoCall EXCEPT !.fn = "align_text", !.width = w, !.text = t,
                     !.h_align = h, !.v_align = v] :
        w \in EncodeWidths, t \in EncodeTexts,
        h \in { LEFT, RIGHT, CENTER }, v \in { TOP, BOTTOM } }
    \cup { [NoCall EXCEPT !.fn = "set_disc_info", !.width = w, !.text = t] :
             w \in AlbumWidths, t \in Albums }
    \cup { [NoCall EXCEPT !.fn = "plugin_on_seek", !.msec = in[1], !.length = in[2]] :
             in \in FnSeekInputs }

FnInit ==
    /\ npld = reset(Blank)
    /\ out = Emit(<< ClearHome, << 254, 104 >>, << 254, 66, 0 >> >>
                  \o write_header(StrQuodLibet))
    /\ raised = FALSE
    /\ lastOp = "enabled"
    /\ lastEvent = "enabled"
    /\ sup = NoSup
    /\ calls = 0
    /\ clock = 0
    /\ call \in FnCalls

\* _align_text(text, h_align, v_align) on a display call.width wide.
CallAlignText ==
    /\ call.fn = "align_text" /\ ~call.done
    /\ call' = [call EXCEPT
                  !.done = TRUE,
                  !.result = AlignBytes(AlignIndexAt(call.width, call.text, call.h_align),
                                        call.text, call.v_align)]
    /\ UNCHANGED << npld, out, raised, lastOp, lastEvent, sup, calls, clock >>

\* set_disc_info(album, ...) on a display call.width wide: row 1.
CallSetDiscInfo ==
    /\ call.fn = "set_disc_info" /\ ~call.done
    /\ call' = [call EXCEPT !.done = TRUE,
                            !.result = DiscInfoRow1At(call.width, call.text)]
    /\ UNCHANGED << npld, out, raised, lastOp, lastEvent, sup, calls, clock >>

\* plugin_on_seek(song, msec) for a song call.length seconds long.
CallSeek ==
    /\ call.fn = "plugin_on_seek" /\ ~call.done
    /\ plugin_on_seek(call.msec, call.length)
    /\ call' = [call EXCEPT !.done = TRUE]
    /\ UNCHANGED << calls, clock >>

FnNext ==
    \/ CallAlignText
    \/ CallSetDiscInfo
    \/ CallSeek

FnSpec == FnInit /\ [][FnNext]_vars

\* The column and the row byte as the encoder is described.
EncodeColumn ==
    IF call.h_align = LEFT THEN 1
    ELSE IF call.h_align = RIGHT
         THEN Max(call.width - Len(call.text) + 1, 1)
    ELSE FloorHalf(call.width - Len(call.text)) + 1

EncodeRow == IF call.v_align = TOP THEN 1 ELSE 2

\* C11: for every text, alignment, row and width the encoder returns
\* exactly 4 + length(text) bytes: FE 47, one byte holding the column
\* (LEFT 1, RIGHT max(width - length + 1, 1), CENTER
\* floor((width - length) / 2) + 1), one row byte (01 top, 02 bottom) and
\* the text.
C11_Encoding ==
    (call.fn = "align_text" /\ call.done) =>
        /\ call.result # Raise
        /\ Len(call.result) = 4 + Len(call.text)
        /\ call.result = << 254, 71, EncodeColumn, EncodeRow >> \o call.text

\* The progress-bar command with a percentage of 0..100.
IsProgressBar(bytes) ==
    /\ Len(bytes) = 6
    /\ SubSeq(bytes, 1, 5) = << 254, 124, 1, 2, 0 >>
    /\ bytes[6] \in 0..100

\* C12: a seek in a song of total length 0 does not fail: it suppresses the
\* ticks for one second and writes the progress bar with a percentage of
\* 0..100.
C12_SeekZeroLength ==
    (call.fn = "plugin_on_seek" /\ call.done /\ call.length = 0) =>
        /\ ~raised
        /\ npld.skip_ticks = seconds_to_ticks(1)
        /\ out # << >> /\ IsProgressBar(out[Len(out)])

\* The album as set_disc_info sees it, transliterated.
CallAlbum == unidecode(call.text)

AlbumRowSet == call.fn = "set_disc_info" /\ call.done

\* C13 as claimed: on every display_width > 0 an album longer than the
\* display is stored as its first display_width - 3 characters and the
\* ellipsis, display_width characters in all; a shorter one unchanged.
C13_Original ==
    AlbumRowSet =>
        IF Len(CallAlbum) > call.width
        THEN /\ call.result = SubSeq(CallAlbum, 1, call.width - 3) \o StrEllipsis
             /\ Len(call.result) = call.width
        ELSE call.result = CallAlbum

\* C13: the same on a display_width of 3 or more; on a display_width of 1
\* or 2 an album longer than the display loses its last
\* 3 - display_width characters and gets the ellipsis, which makes the
\* row length(album) + display_width long.
C13_Amended ==
    AlbumRowSet =>
        IF Len(CallAlbum) <= call.width THEN call.result = CallAlbum
        ELSE IF call.width >= 3
             THEN /\ call.result = SubSeq(CallAlbum, 1, call.width - 3) \o StrEllipsis
                  /\ Len(call.result) = call.width
        ELSE /\ call.result =
                    SubSeq(CallAlbum, 1, Len(CallAlbum) - (3 - call.width)) \o StrEllipsis
             /\ Len(call.result) = Len(CallAlbum) + call.width

\* An album of 21 characters was cut to a display 20 wide.
C13_Witness ==
    /\ AlbumRowSet /\ call.width = 20 /\ Len(CallAlbum) = 21
    /\ Len(call.result) = 20

(***************************************************************************)
(* Cursors, tick counter and phases of the running plugin (Spec).          *)
(***************************************************************************)
\* A cursor is off (-1) unless its text is longer than the display.
CursorNeeded(text, cursor) == cursor # -1 => (text # None /\ Len(text) > lcd_width)

\* C14 as claimed: with a track loaded, a cursor differs from -1 only when
\* the length of its text exceeds display_width.
C14_Original ==
    Loaded => /\ CursorNeeded(npld.artist, npld.scroll_a)
              /\ CursorNeeded(npld.title, npld.scroll_t)

\* The cursor reset() leaves: 0, whatever the text, until BASIC_INFO ends.
CursorAsReset(cursor) == cursor = 0 /\ npld.phase = BASIC_INFO

\* C14: a cursor differs from -1 only when the length of its text exceeds
\* display_width, or when it is 0 in BASIC_INFO, where reset() put it.
C14_Amended ==
    /\ CursorNeeded(npld.artist, npld.scroll_a) \/ CursorAsReset(npld.scroll_a)
    /\ CursorNeeded(npld.title, npld.scroll_t) \/ CursorAsReset(npld.scroll_t)

\* A tick has run in the first BASIC_INFO of a track whose title fits the
\* display, and the cursor of the title is still 0.
C14_Witness ==
    /\ Loaded /\ lastOp = "tick" /\ npld.tick_count > 0
    /\ npld.phase = BASIC_INFO
    /\ Len(npld.title) <= lcd_width /\ npld.scroll_t = 0

\* C15 as claimed: a step that changes the phase ends with tick_count = 0,
\* and a step that takes tick_count from positive to 0 changes the phase.
C15_Original ==
    [][/\ npld'.phase # npld.phase => npld'.tick_count = 0
       /\ (npld.tick_count > 0 /\ npld'.tick_count = 0) =>
              npld'.phase # npld.phase]_vars

\* C15: a step that changes the phase ends with tick_count = 0, and a step
\* that takes tick_count from positive to 0 changes the phase or is a
\* reset() (a track starting or ending while the phase is BASIC_INFO).
C15_Amended ==
    [][/\ npld'.phase # npld.phase => npld'.tick_count = 0
       /\ (npld.tick_count > 0 /\ npld'.tick_count = 0) =>
              (npld'.phase # npld.phase \/ IsReset(lastOp'))]_vars

\* A tick has moved the plugin into a phase other than the first.
C15_Witness ==
    /\ Loaded /\ lastOp = "tick"
    /\ npld.phase # BASIC_INFO /\ npld.tick_count = 0

\* C16: with a track loaded, a tick inside a suppression window writes
\* nothing, takes exactly 1 from skip_ticks and leaves phase, tick_count and
\* both cursors alone; it sets force_refresh exactly when it brings
\* skip_ticks to 0.
C16_SuppressWindow ==
    [][(lastOp' = "tick" /\ Loaded /\ npld.skip_ticks > 0) =>
          /\ out' = << >>
          /\ npld'.skip_ticks = npld.skip_ticks - 1
          /\ npld'.phase = npld.phase
          /\ npld'.tick_count = npld.tick_count
          /\ npld'.scroll_a = npld.scroll_a
          /\ npld'.scroll_t = npld.scroll_t
          /\ npld'.force_refresh =
                 (npld.force_refresh \/ npld'.skip_ticks = 0)]_vars

\* The first tick of a window of two has passed without forcing a refresh.
C16_Witness ==
    /\ Loaded /\ lastOp = "tick"
    /\ npld.skip_ticks = 1 /\ ~npld.force_refresh

\* C17: a tick leaves BASIC_SCROLL or BASIC_SCROLL_2 only when tick_count,
\* once incremented, exceeds ticks_per_phase and both cursors are -1, and
\* that tick writes nothing.
C17_ScrollExit ==
    [][(lastOp' = "tick" /\ npld.phase \in ScrollPhases
        /\ npld'.phase # npld.phase) =>
          /\ npld.tick_count + 1 > ticks_in_phase
          /\ npld.scroll_a = -1 /\ npld.scroll_t = -1
          /\ out' = << >>]_vars

\* A tick has ended a scroll phase of a track whose artist and title both
\* had to scroll.
C17_Witness ==
    /\ Loaded /\ lastOp = "tick" /\ npld.tick_count = 0
    /\ npld.phase \in { BASIC_INFO_2, DISC_INFO }
    /\ Len(npld.artist) > lcd_width /\ Len(npld.title) > lcd_width

\* tick_count, once incremented, is past the hold of the phase: all of
\* ticks_per_phase, half of it for the header.
HoldOver(phase, tick_count) ==
    IF phase = HEADER_INFO
    THEN 2 * (tick_count + 1) > ticks_in_phase
    ELSE tick_count + 1 > ticks_in_phase

\* C18: an unsuppressed tick leaves BASIC_INFO, BASIC_INFO_2 or DISC_INFO
\* exactly when tick_count comes to exceed ticks_per_phase, and HEADER_INFO
\* exactly when it comes to exceed ticks_per_phase / 2.
C18_StaticHolds ==
    [][(lastOp' = "tick" /\ Loaded /\ npld.skip_ticks = 0
        /\ npld.phase \notin ScrollPhases) =>
          (npld'.phase # npld.phase <=> HoldOver(npld.phase, npld.tick_count))]_vars

\* A tick has ended the header phase and started the cycle again.
C18_Witness ==
    /\ Loaded /\ lastOp = "tick" /\ npld.tick_count = 0
    /\ npld.phase = BASIC_INFO
    /\ Len(npld.title) <= lcd_width /\ npld.scroll_t = -1

\* C19: a tick that advances the phase ends with tick_count = 0,
\* force_refresh set and each cursor 0 if its text is longer than
\* display_width and -1 otherwise.
C19_AdvancePhase ==
    [][(lastOp' = "tick" /\ npld'.phase # npld.phase) =>
          /\ npld'.tick_count = 0
          /\ npld'.force_refresh
          /\ npld'.scroll_a = (IF Len(npld'.artist) > lcd_width THEN 0 ELSE -1)
          /\ npld'.scroll_t = (IF Len(npld'.title) > lcd_width THEN 0 ELSE -1)]_vars

\* A scroll phase has just begun for a long artist and a short title.
C19_Witness ==
    /\ Loaded /\ lastOp = "tick" /\ npld.phase = BASIC_SCROLL
    /\ npld.tick_count = 0 /\ npld.force_refresh
    /\ npld.scroll_a = 0 /\ npld.scroll_t = -1

CursorInRange(text, cursor) ==
    /\ cursor >= -1 /\ cursor <= Len(text)
    /\ npld.phase \notin ScrollPhases => cursor \in { -1, 0 }

\* C20: with a track loaded, each cursor lies between -1 and the length of
\* its stored text, and outside the scroll phases it is -1 or 0.
C20_CursorRange ==
    Loaded => /\ CursorInRange(npld.artist, npld.scroll_a)
              /\ CursorInRange(npld.title, npld.scroll_t)

\* The cursor of the artist stands at the end of the stored text.
C20_Witness ==
    /\ Loaded /\ npld.phase \in ScrollPhases
    /\ npld.scroll_a = Len(npld.artist)
====
